---- MODULE Spec2Model ----
(***************************************************************************)
(* Model of the LLMLocal front end: the conversation store (ChatProvider   *)
(* of context/ChatContext), the streaming client                           *)
(* (ApiService.sendMessageStream of services/api) and the message composer *)
(* (MessageInput.handleSubmit).                                            *)
(*                                                                         *)
(* Every handler runs to its next await as one atomic step (single         *)
(* threaded event loop); every awaited network operation is an in-flight   *)
(* request that the environment resolves or rejects in a later step.       *)
(* A useCallback closure captures the state of the render in which the     *)
(* handler was called: sendMessage and deleteConversation keep the         *)
(* currentConversation they were called with.                              *)
(*                                                                         *)
(* Text is a sequence of code points; a transport chunk is a sequence of   *)
(* bytes.                                                                  *)
(***************************************************************************)
EXTENDS Integers, Sequences, FiniteSets, TLC

\* ------------------------------------------------------------------ bounds
MaxConvId == 2
MaxInFlight == 2
MaxStreams == 2
MaxChunks == 2
MaxChunkLen == 1
MaxMsgs == 2
MaxContentLen == 1
MaxMutations == 1

\* --------------------------------------------------------------- constants
None == 0                  \* null: no conversation
REPLACEMENT == 65533       \* U+FFFD, what TextDecoder emits for a malformed sequence
Bytes == {97, 195, 169}    \* "a", and the two bytes of U+00E9
Chars == {32, 97}          \* a space and "a"

ConvIds == 1..MaxConvId
Slots == 1..MaxStreams

SeqsUpTo(S, n) == UNION {[1..k -> S] : k \in 0..n}

Contents == SeqsUpTo(Chars, MaxContentLen)
Chunks == SeqsUpTo(Bytes, MaxChunkLen) \ {<<>>}

\* ------------------------------------------------------------------- state
VARIABLES
  conversations,        \* useState<Conversation[]>: list of conversation ids
  currentConversation,  \* useState<Conversation | null>: id, or None
  messages,             \* useState<Message[]>
  models,               \* useState<Model[]>
  isLoading,
  isStreaming,
  streamingMessage,     \* useState(''): streamed text so far
  streams,              \* sendMessageStream invocations, one per slot
  convReqs,             \* api.getConversations requests in flight
  msgReqs,              \* api.getMessages requests in flight, per conversation
  modelReqs,            \* api.getModels requests in flight
  createReqs,           \* api.createConversation requests in flight
  deleteReqs,           \* api.deleteConversation requests in flight
  fetchLog,             \* history: outcome of the loadConversations calls
  direct,               \* history: sendMessage was called past the composer
  last                  \* history: the handler that ran last

store == <<conversations, currentConversation, messages, models,
           isLoading, isStreaming, streamingMessage>>
net == <<streams, convReqs, msgReqs, modelReqs, createReqs, deleteReqs>>
vars == <<store, net, fetchLog, direct, last>>

\* ----------------------------------------------------------------- helpers
RECURSIVE Flatten(_)
Flatten(ss) == IF ss = <<>> THEN <<>> ELSE Head(ss) \o Flatten(Tail(ss))

RemoveAt(s, i) == SubSeq(s, 1, i - 1) \o SubSeq(s, i + 1, Len(s))

RECURSIVE SumOver(_, _)
SumOver(f, S) ==
  IF S = {} THEN 0
  ELSE LET x == CHOOSE y \in S : TRUE IN f[x] + SumOver(f, S \ {x})

MsgInFlight == SumOver(msgReqs, ConvIds)

\* GET requests of the store in flight
InFlight == convReqs + MsgInFlight

isWhitespace(c) == c = 32

RECURSIVE trimStart(_)
trimStart(s) ==
  IF s /= <<>> /\ isWhitespace(Head(s)) THEN trimStart(Tail(s)) ELSE s

RECURSIVE trimEnd(_)
trimEnd(s) ==
  IF s /= <<>> /\ isWhitespace(s[Len(s)])
  THEN trimEnd(SubSeq(s, 1, Len(s) - 1)) ELSE s

trim(s) == trimEnd(trimStart(s))

\* a Message; conv is history: the conversation the message belongs to
Message(role, content, conv) ==
  [role |-> role, content |-> content, conv |-> conv]

\* what the server may return for GET /chat/conversations
ConvLists == {<<1>>, <<2, 1>>}

\* what the server may return for GET /chat/conversations/{c}/messages
MessageLists(c) ==
  {<<>>,
   <<Message("assistant", <<97>>, c)>>}

\* what the server may return for GET /chat/models
ModelLists == {<<>>, <<"llama3.2:3b">>}

\* generation parameters absent from a call
NoParams == [model |-> "absent", stream |-> "absent"]

\* the params a consumer may pass to sendMessage: a model name or none, and,
\* since the object is spread into the request, a stray stream key or none
Params == [model : {"absent", "llama3.2:3b"}, stream : {"absent", "false"}]

\* the params MessageInput passes: the selected model, no stream key
ComposerParams == [model |-> "llama3.2:3b", stream |-> "absent"]

\* history record of one handler run: its name, its argument (conversation
\* id or stream slot), its text argument, the error it reported, whether
\* the state it started from had something for it to overwrite, how the
\* promise of the async action settled in this run ("" while it is pending),
\* and the params argument of a send
Event(op, id, text) ==
  [op |-> op, id |-> id, text |-> text, err |-> "", had |-> FALSE,
   settled |-> "", params |-> NoParams]

\* an async action that reaches its end or a return: its promise fulfils
returned == "fulfilled"

\* variant: a load rethrows what it caught
logged_rethrow == "rejected"

\* catch (error) { console.error(...) }: the error is swallowed
logged == "fulfilled"

\* variant: a mutation swallows what it caught
rethrown_swallow == "fulfilled"

\* catch (error) { console.error(...); throw error }: the promise rejects
rethrown == "rejected"

IdleStream ==
  [pc |-> "idle", conv |-> None,
   req |-> [conversation_id |-> None, message |-> <<>>, model |-> "absent",
            stream |-> "absent"],
   need |-> 0, cp |-> 0, nFetch |-> 0,
   nChunk |-> 0, nComplete |-> 0, nError |-> 0, frags |-> <<>>,
   chunks |-> <<>>]

\* -------------------------------------------------------------------- Init
Init ==
  /\ conversations = <<>>
  /\ currentConversation = None
  /\ messages = <<>>
  /\ models = <<>>
  /\ isLoading = FALSE
  /\ isStreaming = FALSE
  /\ streamingMessage = <<>>
  /\ streams = [s \in Slots |-> IdleStream]
  /\ convReqs = 0
  /\ msgReqs = [c \in ConvIds |-> 0]
  /\ modelReqs = 0
  /\ createReqs = 0
  /\ deleteReqs = <<>>
  /\ fetchLog = [ok |-> FALSE, data |-> <<>>, edited |-> FALSE, overlap |-> FALSE]
  /\ direct = FALSE
  /\ last = Event("init", None, <<>>)

\* ------------------------------------------------- store: list/detail loads
\* variant: the fetched list is merged into the previous one
setConversations_merge(prev, convs) == prev \o convs

\* setConversations(convs): the fetched list replaces the previous one
setConversations(prev, convs) == convs

\* variant: the fetched messages are added to the previous ones
setMessages_append(prev, msgs) == prev \o msgs

\* setMessages(msgs)
setMessages(prev, msgs) == msgs

\* setModels(modelList)
setModels(prev, modelList) == modelList

\* variant: a failed load empties the collection
retained_reset(prev) == <<>>

\* a catch block that makes no set call: the collection keeps its contents
retained(prev) == prev

\* loadConversations, up to the await of api.getConversations()
loadConversations ==
  /\ InFlight < MaxInFlight
  /\ convReqs' = convReqs + 1
  /\ last' = Event("loadConversations", None, <<>>)
  /\ UNCHANGED <<store, streams, msgReqs, modelReqs, createReqs, deleteReqs,
                 fetchLog, direct>>

\* loadConversations, after api.getConversations() resolved with convs
loadConversationsOk(convs) ==
  /\ convReqs > 0
  /\ convReqs' = convReqs - 1
  /\ conversations' = setConversations(conversations, convs)
  /\ fetchLog' = [ok |-> TRUE, data |-> convs, edited |-> FALSE,
                  overlap |-> fetchLog.overlap \/ convReqs > 1]
  /\ last' = [Event("loadConversationsOk", None, <<>>)
                EXCEPT !.settled = returned]
  /\ UNCHANGED <<currentConversation, messages, models, isLoading,
                 isStreaming, streamingMessage, streams, msgReqs, modelReqs,
                 createReqs, deleteReqs, direct>>

\* loadConversations, after api.getConversations() rejected: logged only
loadConversationsFail ==
  /\ convReqs > 0
  /\ convReqs' = convReqs - 1
  /\ conversations' = retained(conversations)
  /\ fetchLog' = [fetchLog EXCEPT !.overlap = @ \/ convReqs > 1]
  /\ last' = [Event("loadConversationsFail", None, <<>>)
                EXCEPT !.settled = logged]
  /\ UNCHANGED <<currentConversation, messages, models, isLoading,
                 isStreaming, streamingMessage, streams, msgReqs, modelReqs,
                 createReqs, deleteReqs, direct>>

\* loadMessages(conversationId), up to the await of api.getMessages()
loadMessages(conversationId) ==
  /\ InFlight < MaxInFlight
  /\ isLoading' = TRUE
  /\ msgReqs' = [msgReqs EXCEPT ![conversationId] = @ + 1]
  /\ last' = Event("loadMessages", conversationId, <<>>)
  /\ UNCHANGED <<conversations, currentConversation, messages, models,
                 isStreaming, streamingMessage, streams, convReqs, modelReqs,
                 createReqs, deleteReqs, fetchLog, direct>>

\* loadMessages, after api.getMessages() resolved with msgs, and its finally
loadMessagesOk(conversationId, msgs) ==
  /\ msgReqs[conversationId] > 0
  /\ msgReqs' = [msgReqs EXCEPT ![conversationId] = @ - 1]
  /\ messages' = setMessages(messages, msgs)
  /\ isLoading' = FALSE
  /\ last' = [Event("loadMessagesOk", conversationId, <<>>)
                EXCEPT !.had = messages /= <<>>, !.settled = returned]
  /\ UNCHANGED <<conversations, currentConversation, models, isStreaming,
                 streamingMessage, streams, convReqs, modelReqs, createReqs,
                 deleteReqs, fetchLog, direct>>

\* loadMessages, after api.getMessages() rejected, and its finally
loadMessagesFail(conversationId) ==
  /\ msgReqs[conversationId] > 0
  /\ msgReqs' = [msgReqs EXCEPT ![conversationId] = @ - 1]
  /\ messages' = retained(messages)
  /\ isLoading' = FALSE
  /\ last' = [Event("loadMessagesFail", conversationId, <<>>)
                EXCEPT !.settled = logged]
  /\ UNCHANGED <<conversations, currentConversation, models,
                 isStreaming, streamingMessage, streams, convReqs, modelReqs,
                 createReqs, deleteReqs, fetchLog, direct>>

\* loadModels, up to the await of api.getModels()
loadModels ==
  /\ modelReqs < MaxMutations
  /\ modelReqs' = modelReqs + 1
  /\ last' = Event("loadModels", None, <<>>)
  /\ UNCHANGED <<store, streams, convReqs, msgReqs, createReqs, deleteReqs,
                 fetchLog, direct>>

loadModelsOk(modelList) ==
  /\ modelReqs > 0
  /\ modelReqs' = modelReqs - 1
  /\ models' = setModels(models, modelList)
  /\ last' = [Event("loadModelsOk", None, <<>>)
                EXCEPT !.settled = returned]
  /\ UNCHANGED <<conversations, currentConversation, messages, isLoading,
                 isStreaming, streamingMessage, streams, convReqs, msgReqs,
                 createReqs, deleteReqs, fetchLog, direct>>

loadModelsFail ==
  /\ modelReqs > 0
  /\ modelReqs' = modelReqs - 1
  /\ models' = retained(models)
  /\ last' = [Event("loadModelsFail", None, <<>>)
                EXCEPT !.settled = logged]
  /\ UNCHANGED <<conversations, currentConversation, messages, isLoading,
                 isStreaming, streamingMessage, streams, convReqs, msgReqs,
                 createReqs, deleteReqs, fetchLog, direct>>

\* ------------------------------------------- store: create, select, delete
\* variant: the new conversation is put at the end of the list
prependConversation_append(prev, conversation) == Append(prev, conversation)

\* setConversations(prev => [conversation, ...prev])
prependConversation(prev, conversation) == <<conversation>> \o prev

\* variant: the first entry is removed, whatever its id
filterConversations_dropHead(prev, conversationId) ==
  IF prev = <<>> THEN prev ELSE Tail(prev)

\* setConversations(prev => prev.filter(c => c.id !== conversationId))
filterConversations(prev, conversationId) ==
  SelectSeq(prev, LAMBDA c : c /= conversationId)

\* createConversation(title, model), up to the await
createConversation ==
  /\ createReqs < MaxMutations
  /\ createReqs' = createReqs + 1
  /\ last' = Event("createConversation", None, <<>>)
  /\ UNCHANGED <<store, streams, convReqs, msgReqs, modelReqs, deleteReqs,
                 fetchLog, direct>>

\* createConversation, after the server answered with its conversation
createConversationOk(conversation) ==
  /\ createReqs > 0
  /\ \A i \in 1..Len(conversations) : conversations[i] /= conversation
  /\ createReqs' = createReqs - 1
  /\ conversations' = prependConversation(conversations, conversation)
  /\ fetchLog' = [fetchLog EXCEPT !.edited = TRUE]
  /\ last' = [Event("createConversationOk", conversation, <<>>)
                EXCEPT !.settled = returned]
  /\ UNCHANGED <<currentConversation, messages, models, isLoading,
                 isStreaming, streamingMessage, streams, convReqs, msgReqs,
                 modelReqs, deleteReqs, direct>>

\* createConversation, after the request failed: logged and rethrown
createConversationFail ==
  /\ createReqs > 0
  /\ createReqs' = createReqs - 1
  /\ last' = [Event("createConversationThrow", None, <<>>)
                EXCEPT !.settled = rethrown]
  /\ UNCHANGED <<store, streams, convReqs, msgReqs, modelReqs, deleteReqs,
                 fetchLog, direct>>

\* variant: the message list survives the new chat
clearMessages_keep(prev) == prev

\* setMessages([])
clearMessages(prev) == <<>>

\* selectConversation(conversation | null)
selectConversation(conversation) ==
  /\ currentConversation' = conversation
  /\ IF conversation /= None
     THEN /\ InFlight < MaxInFlight
          /\ isLoading' = TRUE
          /\ msgReqs' = [msgReqs EXCEPT ![conversation] = @ + 1]
          /\ messages' = messages
     ELSE /\ messages' = clearMessages(messages)
          /\ UNCHANGED <<isLoading, msgReqs>>
  /\ last' = [Event("selectConversation", conversation, <<>>)
                EXCEPT !.had = currentConversation /= None /\ messages /= <<>>]
  /\ UNCHANGED <<conversations, models, isStreaming, streamingMessage,
                 streams, convReqs, modelReqs, createReqs, deleteReqs,
                 fetchLog, direct>>

\* deleteConversation(conversationId), up to the await; the callback closes
\* over the currentConversation of the render it was created in
deleteConversation(conversationId) ==
  /\ Len(deleteReqs) < MaxMutations
  /\ deleteReqs' = Append(deleteReqs,
                          [id |-> conversationId, cur |-> currentConversation])
  /\ last' = Event("deleteConversation", conversationId, <<>>)
  /\ UNCHANGED <<store, streams, convReqs, msgReqs, modelReqs, createReqs,
                 fetchLog, direct>>

\* deleteConversation, after the server confirmed
deleteConversationOk(i) ==
  /\ i \in 1..Len(deleteReqs)
  /\ LET d == deleteReqs[i] IN
       /\ conversations' = filterConversations(conversations, d.id)
       /\ IF d.cur = d.id
          THEN currentConversation' = None /\ messages' = <<>>
          ELSE UNCHANGED <<currentConversation, messages>>
       /\ last' = [Event("deleteConversationOk", d.id, <<>>)
                     EXCEPT !.had = d.cur = d.id, !.settled = returned]
  /\ deleteReqs' = RemoveAt(deleteReqs, i)
  /\ fetchLog' = [fetchLog EXCEPT !.edited = TRUE]
  /\ UNCHANGED <<models, isLoading, isStreaming, streamingMessage, streams,
                 convReqs, msgReqs, modelReqs, createReqs, direct>>

\* deleteConversation, after the request failed: logged and rethrown
deleteConversationFail(i) ==
  /\ i \in 1..Len(deleteReqs)
  /\ deleteReqs' = RemoveAt(deleteReqs, i)
  /\ last' = [Event("deleteConversationThrow", deleteReqs[i].id, <<>>)
                EXCEPT !.settled = rethrown]
  /\ UNCHANGED <<store, streams, convReqs, msgReqs, modelReqs, createReqs,
                 fetchLog, direct>>

\* ------------------------------------------------- streaming client: decoder
\* one byte through the UTF-8 decoder of TextDecoder, for the one and two byte
\* sequences the bytes of the model can form; st = [need, cp, out]: continuation
\* bytes still needed, code point so far, text emitted
utf8Byte(st, b) ==
  IF st.need = 0
  THEN IF b <= 127 THEN [st EXCEPT !.out = Append(@, b)]
       ELSE IF b >= 194 /\ b <= 223
            THEN [st EXCEPT !.need = 1, !.cp = b - 192]
            ELSE [st EXCEPT !.out = Append(@, REPLACEMENT)]
  ELSE IF b >= 128 /\ b <= 191
       THEN [need |-> 0, cp |-> 0, out |-> Append(st.out, st.cp * 64 + (b - 128))]
       ELSE \* not a continuation byte: error, and the byte is read again
            LET r == [need |-> 0, cp |-> 0, out |-> Append(st.out, REPLACEMENT)]
            IN IF b <= 127 THEN [r EXCEPT !.out = Append(@, b)]
               ELSE IF b >= 194 /\ b <= 223
                    THEN [r EXCEPT !.need = 1, !.cp = b - 192]
                    ELSE [r EXCEPT !.out = Append(@, REPLACEMENT)]

RECURSIVE utf8Bytes(_, _)
utf8Bytes(st, bytes) ==
  IF bytes = <<>> THEN st ELSE utf8Bytes(utf8Byte(st, Head(bytes)), Tail(bytes))

\* variant: every chunk is decoded on its own, an incomplete sequence of the
\* chunk before is forgotten
decode_stateless(need, cp, value) ==
  utf8Bytes([need |-> 0, cp |-> 0, out |-> <<>>], value)

\* decoder.decode(value, { stream: true }): the decoder keeps an incomplete
\* sequence for the next call
decode(need, cp, value) == utf8Bytes([need |-> need, cp |-> cp, out |-> <<>>], value)

\* --------------------------------------------- store: callbacks of the send
\* variant: the chunk is put in front of the text
onChunk_front(prev, chunk) == chunk \o prev

\* On chunk: setStreamingMessage(prev => prev + chunk)
onChunk(prev, chunk) == prev \o chunk

\* variant: the user message is put in front of the list
appendMessage_front(prev, userMessage) == <<userMessage>> \o prev

\* setMessages(prev => [...prev, userMessage])
appendMessage(prev, userMessage) == Append(prev, userMessage)

\* variant: the request is sent as given
requestBody_asGiven(request) == request

\* variant: a send without conversation names the first one
optionalId_first(conversation) == IF conversation = None THEN 1 ELSE conversation

\* currentConversation?.id: the id, or absent (None) without conversation
optionalId(conversation) == conversation

\* JSON.stringify({ ...request, stream: true })
requestBody(request) == [request EXCEPT !.stream = "true"]

\* errorData.detail || 'Failed to send message'
errorMessage(detail) == IF detail /= "" THEN detail ELSE "Failed to send message"

\* error instanceof Error ? error : new Error('Unknown error')
normalizeError(error) == IF error = "nonError" THEN "Unknown error" ELSE error

\* variant: the partial text is kept after a failure
discardBuffer_keep(prev) == prev

\* On error: setStreamingMessage('')
discardBuffer(prev) == <<>>

\* variant: the conversation list is reloaded after every turn
reconcile_alwaysList(conv) == "loadConversations"

\* On complete: loadMessages(currentConversation.id) if the closure has a
\* conversation, loadConversations() otherwise
reconcile(conv) == IF conv /= None THEN "loadMessages" ELSE "loadConversations"

\* the invocation after onComplete() returned: its locals are gone
completed(st) ==
  [IdleStream EXCEPT !.pc = "done", !.nComplete = st.nComplete + 1,
                     !.nError = st.nError]

\* variant: a thrown value that is no Error is swallowed
caught_nonErrorSilent(st, error) ==
  [IdleStream EXCEPT !.pc = "done", !.nComplete = st.nComplete,
                     !.nError = IF error = "nonError" THEN st.nError
                                ELSE st.nError + 1]

\* variant: the catch block reports the error and issues the request again
caught_retry(st, error) ==
  [st EXCEPT !.pc = "fetch", !.nFetch = st.nFetch + 1,
             !.nError = st.nError + 1]

\* variant: the catch block reports the error and then completes as well
caught_alsoComplete(st, error) ==
  [IdleStream EXCEPT !.pc = "done", !.nComplete = st.nComplete + 1,
                     !.nError = st.nError + 1]

\* the invocation after its catch block called onError(...)
caught(st, error) ==
  [IdleStream EXCEPT !.pc = "done", !.nComplete = st.nComplete,
                     !.nError = st.nError + 1]

Outstanding == {s \in Slots : streams[s].pc \in {"fetch", "json", "read"}}
FreeSlots == Slots \ Outstanding

\* variant: a chunk that decodes to no text is not passed on
delivered_skipEmpty(calls, chunk) ==
  IF chunk = <<>> THEN calls ELSE Append(calls, chunk)

\* onChunk(chunk), called for every chunk read; calls is history: the
\* arguments of the calls made so far
delivered(calls, chunk) == Append(calls, chunk)

\* sendMessage(content, params) up to the await of fetch inside
\* api.sendMessageStream; via is history: the caller
sendMessageVia(content, params, via) ==
  /\ FreeSlots /= {}
  /\ Len(messages) < MaxMsgs
  /\ LET s == CHOOSE f \in FreeSlots : \A g \in FreeSlots : f <= g
         request == [conversation_id |-> optionalId(currentConversation),
                     message |-> content, model |-> params.model,
                     stream |-> params.stream]
     IN streams' = [streams EXCEPT ![s] =
                      [IdleStream EXCEPT !.pc = "fetch",
                                         !.conv = currentConversation,
                                         !.req = requestBody(request),
                                         !.nFetch = 1]]
  /\ isLoading' = TRUE
  /\ isStreaming' = TRUE
  /\ streamingMessage' = <<>>
  /\ messages' = appendMessage(messages,
                               Message("user", content, currentConversation))
  /\ last' = [Event(via, None, content) EXCEPT !.had = streamingMessage /= <<>>,
                                              !.params = params]
  /\ UNCHANGED <<conversations, currentConversation, models, convReqs,
                 msgReqs, modelReqs, createReqs, deleteReqs, fetchLog>>

\* the store's sendMessage called by any consumer of the context
sendMessage(content, params) ==
  /\ sendMessageVia(content, params, "sendMessage")
  /\ direct' = TRUE

\* variant: the composer does not look at isStreaming
rejects_blankOnly(message) == trim(message) = <<>>

\* variant: the composer does not trim
rejects_emptyOnly(message) == message = <<>> \/ isStreaming

\* MessageInput.handleSubmit: if (!message.trim() || isStreaming) return
rejects(message) == trim(message) = <<>> \/ isStreaming

\* MessageInput.handleSubmit with the text of the composer
handleSubmit(message) ==
  IF rejects(message)
  THEN /\ last' = Event("handleSubmitReturn", None, message)
       /\ UNCHANGED <<store, net, fetchLog, direct>>
  ELSE /\ sendMessageVia(message, ComposerParams, "handleSubmit")
       /\ UNCHANGED direct

\* On error, then the finally of sendMessage
streamFails(s, error) ==
  /\ streams' = [streams EXCEPT ![s] = caught(streams[s], error)]
  /\ isStreaming' = FALSE
  /\ streamingMessage' = discardBuffer(streamingMessage)
  /\ isLoading' = FALSE
  /\ last' = [Event("onError", None, <<>>) EXCEPT !.err = normalizeError(error),
                                                !.had = streams[s].nChunk > 0,
                                                !.settled = returned]
  /\ UNCHANGED <<conversations, currentConversation, messages, models,
                 convReqs, msgReqs, modelReqs, createReqs, deleteReqs,
                 fetchLog, direct>>

\* ------------------------------------------ streaming client: the transport
\* await fetch(...) rejects: network failure
fetchReject(s) ==
  /\ streams[s].pc = "fetch"
  /\ streamFails(s, "Failed to fetch")

\* await fetch(...) resolves with a response
fetchResolve(s, ok, hasBody) ==
  /\ streams[s].pc = "fetch"
  /\ IF ~ok
     THEN /\ streams' = [streams EXCEPT ![s].pc = "json"]
          /\ last' = Event("response", None, <<>>)
          /\ UNCHANGED <<store, convReqs, msgReqs, modelReqs, createReqs,
                         deleteReqs, fetchLog, direct>>
     ELSE IF ~hasBody
          THEN streamFails(s, "No response body")
          ELSE /\ streams' = [streams EXCEPT ![s].pc = "read"]
               /\ last' = Event("response", None, <<>>)
               /\ UNCHANGED <<store, convReqs, msgReqs, modelReqs, createReqs,
                              deleteReqs, fetchLog, direct>>

\* await response.json() resolves; errorData is null or an object
jsonResolve(s, errorData) ==
  /\ streams[s].pc = "json"
  /\ IF errorData = "null"
     THEN streamFails(s, "TypeError")
     ELSE streamFails(s, errorMessage(errorData))

\* await response.json() rejects: the body is not JSON
jsonReject(s) ==
  /\ streams[s].pc = "json"
  /\ streamFails(s, "SyntaxError")

\* await reader.read() resolves with a chunk
readChunk(s, value) ==
  /\ streams[s].pc = "read"
  /\ streams[s].nChunk < MaxChunks
  /\ LET d == decode(streams[s].need, streams[s].cp, value) IN
       /\ streams' = [streams EXCEPT ![s].need = d.need,
                                     ![s].cp = d.cp,
                                     ![s].nChunk = @ + 1,
                                     ![s].frags = delivered(@, d.out),
                                     ![s].chunks = Append(@, value)]
       /\ streamingMessage' = onChunk(streamingMessage, d.out)
       /\ last' = Event("onChunk", None, <<>>)
  /\ UNCHANGED <<conversations, currentConversation, messages, models,
                 isLoading, isStreaming, convReqs, msgReqs, modelReqs,
                 createReqs, deleteReqs, fetchLog, direct>>

\* await reader.read() resolves with done: On complete, then the finally of
\* sendMessage
readDone(s) ==
  /\ streams[s].pc = "read"
  /\ streams' = [streams EXCEPT ![s] = completed(streams[s])]
  /\ isStreaming' = FALSE
  /\ IF reconcile(streams[s].conv) = "loadMessages"
     THEN /\ InFlight < MaxInFlight
          /\ msgReqs' = [msgReqs EXCEPT ![streams[s].conv] = @ + 1]
          /\ UNCHANGED convReqs
     ELSE /\ InFlight < MaxInFlight
          /\ convReqs' = convReqs + 1
          /\ UNCHANGED msgReqs
  /\ streamingMessage' = <<>>
  /\ isLoading' = FALSE
  /\ last' = [Event("onComplete", streams[s].conv, <<>>)
                EXCEPT !.had = streams[s].nChunk > 0, !.settled = returned]
  /\ UNCHANGED <<conversations, currentConversation, messages, models,
                 modelReqs, createReqs, deleteReqs, fetchLog, direct>>

\* await reader.read() rejects
readReject(s, error) ==
  /\ streams[s].pc = "read"
  /\ streamFails(s, error)

\* --------------------------------------------------------- specifications
ListResponses ==
  \/ \E convs \in ConvLists : loadConversationsOk(convs)
  \/ loadConversationsFail

MessageResponses ==
  \/ \E c \in ConvIds : \E msgs \in MessageLists(c) : loadMessagesOk(c, msgs)
  \/ \E c \in ConvIds : loadMessagesFail(c)

MutationResponses ==
  \/ \E c \in ConvIds : createConversationOk(c)
  \/ createConversationFail
  \/ \E i \in 1..MaxMutations : deleteConversationOk(i)
  \/ \E i \in 1..MaxMutations : deleteConversationFail(i)

Transport ==
  \/ \E s \in Slots : fetchReject(s)
  \/ \E s \in Slots : \E ok \in BOOLEAN : \E hasBody \in BOOLEAN :
       fetchResolve(s, ok, hasBody)
  \/ \E s \in Slots : \E errorData \in {"detail", "", "null"} :
       jsonResolve(s, errorData)
  \/ \E s \in Slots : jsonReject(s)
  \/ \E s \in Slots : \E value \in Chunks : readChunk(s, value)
  \/ \E s \in Slots : readDone(s)
  \/ \E s \in Slots : \E e \in {"read error", "nonError"} : readReject(s, e)

\* the conversations the sidebar shows, each with its select and delete
\* handlers
Listed == {conversations[i] : i \in 1..Len(conversations)}

\* The chat as the application runs it: the conversation list mounts and
\* loads, a listed conversation or the new chat is selected, every send goes
\* through the composer.
Next ==
  \/ loadConversations
  \/ \E c \in Listed \cup {None} : selectConversation(c)
  \/ \E message \in Contents : handleSubmit(message)
  \/ ListResponses
  \/ MessageResponses
  \/ Transport

Spec == Init /\ [][Next]_vars

\* The send path of the store as its context exposes it, in one new chat:
\* sendMessage is called by the composer and by any other consumer.
NextStore ==
  \/ \E content \in Contents : \E params \in Params :
       sendMessage(content, params)
  \/ \E message \in Contents : handleSubmit(message)
  \/ ListResponses
  \/ Transport

SpecStore == Init /\ [][NextStore]_vars

\* The conversation list: loads, creations, deletions and selections.
NextList ==
  \/ loadConversations
  \/ createConversation
  \/ \E c \in Listed : deleteConversation(c)
  \/ \E c \in Listed \cup {None} : selectConversation(c)
  \/ ListResponses
  \/ MessageResponses
  \/ MutationResponses

SpecList == Init /\ [][NextList]_vars

\* The three loads of the store called by their consumers, in any order.
ModelResponses ==
  \/ \E modelList \in ModelLists : loadModelsOk(modelList)
  \/ loadModelsFail

NextLoads ==
  \/ loadConversations
  \/ \E c \in ConvIds : loadMessages(c)
  \/ loadModels
  \/ ListResponses
  \/ MessageResponses
  \/ ModelResponses

SpecLoads == Init /\ [][NextLoads]_vars

\* no request of the store is pending
Quiet ==
  /\ InFlight = 0
  /\ modelReqs = 0
  /\ createReqs = 0
  /\ deleteReqs = <<>>
  /\ Outstanding = {}

\* Every action of the store that starts a request, called when nothing is
\* pending, with the network free to answer or fail.
NextActions ==
  \/ Quiet /\ loadConversations
  \/ Quiet /\ \E c \in ConvIds : loadMessages(c)
  \/ Quiet /\ loadModels
  \/ Quiet /\ createConversation
  \/ Quiet /\ \E c \in ConvIds : deleteConversation(c)
  \/ Quiet /\ \E c \in ConvIds : selectConversation(c)
  \/ Quiet /\ \E content \in Contents : \E params \in Params :
                sendMessage(content, params)
  \/ ListResponses
  \/ MessageResponses
  \/ ModelResponses
  \/ MutationResponses
  \/ Transport

SpecActions == Init /\ [][NextActions]_vars

\* One chat driven through the composer, over a transport that answers:
\* an outstanding streaming request is eventually resolved, rejected, read
\* or closed.
NextLive ==
  \/ \E message \in Contents : handleSubmit(message)
  \/ ListResponses
  \/ Transport

SpecLive == Init /\ [][NextLive]_vars /\ WF_vars(Transport)

\* ------------------------------------------------------------------ claims
SendOps == {"sendMessage", "handleSubmit"}
SubmitOps == {"handleSubmit", "handleSubmitReturn"}

\* the step opens a streaming request
OpensRequest ==
  \E s \in Slots : streams[s].pc /= "fetch" /\ streams'[s].pc = "fetch"

\* C1: an invocation of sendMessageStream that has returned has called exactly
\* one of onComplete and onError, and an invocation that is still running has
\* called neither.
C1_ExactlyOneTerminal ==
  \A s \in Slots :
    /\ streams[s].pc = "done" => streams[s].nComplete + streams[s].nError = 1
    /\ streams[s].pc \in {"fetch", "json", "read"} =>
         streams[s].nComplete = 0 /\ streams[s].nError = 0

\* an invocation ended by a thrown value that is no Error
C1_Witness ==
  /\ last.op = "onError"
  /\ last.err = "Unknown error"
  /\ \E s \in Slots : streams[s].pc = "done" /\ streams[s].nError = 1

\* C2 (as stated): any call of sendMessage, direct or through the composer,
\* made while isStreaming is true leaves the message list, the streamed buffer
\* and the streaming requests unchanged.
C2_AnySendWhileStreamingIsNoOp ==
  [][(isStreaming /\ last'.op \in SendOps \cup SubmitOps) =>
       UNCHANGED <<messages, streamingMessage, streams>>]_vars

\* C2 (amended): a submit of the composer made while isStreaming is true
\* leaves the message list, the streamed buffer and the streaming requests
\* unchanged.
C2_SubmitWhileStreamingIsNoOp ==
  [][(isStreaming /\ last'.op \in SubmitOps) =>
       UNCHANGED <<store, net>>]_vars

\* a non-blank submit was rejected while a stream is being read
C2_Witness ==
  /\ last.op = "handleSubmitReturn"
  /\ trim(last.text) /= <<>>
  /\ isStreaming
  /\ \E s \in Slots : streams[s].pc = "read"

\* C3 (as stated): at most one streaming request is outstanding.
C3_AtMostOneStream == Cardinality(Outstanding) <= 1

\* C3 (amended): as long as every send went through the composer, at most one
\* streaming request is outstanding, and one is outstanding exactly while
\* isStreaming is true.
C3_AtMostOneStreamViaComposer ==
  ~direct => /\ Cardinality(Outstanding) <= 1
             /\ isStreaming <=> Outstanding /= {}

\* the composer rejected a second submit and the first request is still the
\* only one
C3_Witness ==
  /\ ~direct
  /\ last.op = "handleSubmitReturn"
  /\ trim(last.text) /= <<>>
  /\ Cardinality(Outstanding) = 1
  /\ Len(messages) = 1

\* C4 (as stated): any call of sendMessage, direct or through the composer,
\* with empty or whitespace-only content appends no message, leaves isStreaming
\* as it is and opens no request.
C4_AnyBlankSendIsNoOp ==
  [][(last'.op \in SendOps \cup SubmitOps /\ trim(last'.text) = <<>>) =>
       UNCHANGED <<messages, isStreaming, streams>>]_vars

\* C4 (amended): a submit of the composer with empty or whitespace-only text
\* appends no message, leaves isStreaming as it is, opens no request and
\* reports no error.
C4_BlankSubmitIsNoOp ==
  [][(last'.op \in SubmitOps /\ trim(last'.text) = <<>>) =>
       /\ UNCHANGED <<store, net>>
       /\ last'.err = ""]_vars

\* a whitespace-only submit was rejected while nothing was streaming
C4_Witness ==
  /\ last.op = "handleSubmitReturn"
  /\ last.text /= <<>>
  /\ trim(last.text) = <<>>
  /\ ~isStreaming
  /\ Outstanding = {}

\* C5: the step in which a stream completes leaves isStreaming false and the
\* buffer empty and starts exactly one fetch: getMessages for the conversation
\* the send was issued with, or getConversations if it was issued with none.
C5_CompletionReconciles ==
  [][\A s \in Slots :
       (streams[s].pc = "read" /\ streams'[s].pc = "done"
          /\ streams'[s].nComplete = 1) =>
         /\ isStreaming' = FALSE
         /\ streamingMessage' = <<>>
         /\ IF streams[s].conv /= None
            THEN /\ msgReqs' = [msgReqs EXCEPT ![streams[s].conv] = @ + 1]
                 /\ convReqs' = convReqs
            ELSE /\ convReqs' = convReqs + 1
                 /\ msgReqs' = msgReqs]_vars

\* a stream completed for a conversation that is no longer the active one
C5_Witness ==
  /\ last.op = "onComplete"
  /\ last.id /= None
  /\ currentConversation /= last.id
  /\ msgReqs[last.id] > 0
  /\ ~isStreaming

\* C6: the step in which a stream fails leaves isStreaming false and the buffer
\* empty, keeps the message list, starts no fetch and opens no request.
C6_FailureDiscards ==
  [][\A s \in Slots :
       (streams[s].pc \in {"fetch", "json", "read"} /\ streams'[s].pc = "done"
          /\ streams'[s].nError = 1) =>
         /\ isStreaming' = FALSE
         /\ streamingMessage' = <<>>
         /\ messages' = messages
         /\ msgReqs' = msgReqs
         /\ convReqs' = convReqs
         /\ ~OpensRequest]_vars

\* a stream failed after fragments had been appended, the user message is
\* still the last of the list
C6_Witness ==
  /\ last.op = "onError"
  /\ last.had
  /\ messages /= <<>>
  /\ messages[Len(messages)].role = "user"
  /\ InFlight = 0

\* C7: the step of an accepted send opens the request and leaves isStreaming
\* true, the buffer empty and the message list extended at its end by one user
\* message with the given content.
C7_SendEntersStreaming ==
  [][last'.op \in SendOps =>
       /\ OpensRequest
       /\ isStreaming' = TRUE
       /\ streamingMessage' = <<>>
       /\ Len(messages') = Len(messages) + 1
       /\ SubSeq(messages', 1, Len(messages)) = messages
       /\ messages'[Len(messages')].role = "user"
       /\ messages'[Len(messages')].content = last'.text]_vars

\* a send was accepted over residual text and an earlier message
C7_Witness ==
  /\ last.op \in SendOps
  /\ last.had
  /\ Len(messages) = 2
  /\ messages[1].content /= messages[2].content
  /\ streamingMessage = <<>>

\* the buffer is the fragments of the stream being read, in arrival order
BufferIsFragments ==
  \A s \in Slots :
    streams[s].pc = "read" =>
      /\ Len(streams[s].frags) = streams[s].nChunk
      /\ streamingMessage = Flatten(streams[s].frags)

\* C8: while a stream is read the buffer is the concatenation of the fragments
\* received so far in arrival order, and the step that receives a fragment
\* keeps the message list.
C8_BufferInArrivalOrder ==
  [][/\ BufferIsFragments'
     /\ last'.op = "onChunk" => messages' = messages]_vars

\* two different fragments have arrived
C8_Witness ==
  \E s \in Slots :
    /\ streams[s].pc = "read"
    /\ streams[s].nChunk = 2
    /\ streams[s].frags[1] /= <<>>
    /\ streams[s].frags[2] /= <<>>
    /\ streams[s].frags[1] /= streams[s].frags[2]
    /\ streamingMessage = streams[s].frags[1] \o streams[s].frags[2]
    /\ messages /= <<>>

\* C9: once every getConversations request has settled, and no creation or
\* deletion has touched the list since, the list is the one the last
\* successful fetch returned (the initial empty list if none succeeded).
C9_LastSuccessfulFetch ==
  (convReqs = 0 /\ ~fetchLog.edited) =>
    conversations = IF fetchLog.ok THEN fetchLog.data ELSE <<>>

\* overlapping requests have settled, the last of them failed after an earlier
\* one succeeded
C9_Witness ==
  /\ convReqs = 0
  /\ fetchLog.ok
  /\ fetchLog.overlap
  /\ ~fetchLog.edited
  /\ last.op = "loadConversationsFail"
  /\ conversations = <<2, 1>>

\* C10: the step of selectConversation(null) leaves no active conversation and
\* an empty message list and changes no request.
C10_SelectNoneClears ==
  [][(last'.op = "selectConversation" /\ last'.id = None) =>
       /\ currentConversation' = None
       /\ messages' = <<>>
       /\ UNCHANGED net]_vars

\* a new chat was started from an active conversation with messages, while a
\* stream was running
C10_Witness ==
  /\ last.op = "selectConversation"
  /\ last.id = None
  /\ last.had
  /\ isStreaming
  /\ currentConversation = None
  /\ messages = <<>>

\* the list without the entries of one id, the others in their order
RECURSIVE Without(_, _)
Without(list, id) ==
  IF list = <<>> THEN <<>>
  ELSE IF Head(list) = id THEN Without(Tail(list), id)
       ELSE <<Head(list)>> \o Without(Tail(list), id)

\* C11: deleteConversation(id) changes nothing locally when it is called;
\* the step in which its request resolves removes the entries of that id
\* from the list, keeps the others in their order and, if the conversation
\* was the active one when deleteConversation was called, sets the active
\* conversation to none and empties the message list.
C11_DeleteAfterConfirmation ==
  [][/\ last'.op = "deleteConversation" =>
          /\ UNCHANGED <<conversations, currentConversation, messages>>
          /\ Len(deleteReqs') = Len(deleteReqs) + 1
     /\ last'.op = "deleteConversationOk" =>
          \E i \in 1..Len(deleteReqs) :
            /\ deleteReqs[i].id = last'.id
            /\ deleteReqs' = RemoveAt(deleteReqs, i)
            /\ conversations' = Without(conversations, last'.id)
            /\ deleteReqs[i].cur = last'.id =>
                 currentConversation' = None /\ messages' = <<>>]_vars

\* the delete of the conversation that was active when it was called was
\* confirmed; other conversations are still listed
C11_Witness ==
  /\ last.op = "deleteConversationOk"
  /\ last.had
  /\ currentConversation = None
  /\ messages = <<>>
  /\ conversations /= <<>>
  /\ \A i \in 1..Len(conversations) : conversations[i] /= last.id

\* C12: a successful createConversation returns the server's conversation
\* and puts it at index 0 of the list, the previous entries following in
\* their previous order.
C12_CreatePrepends ==
  [][last'.op = "createConversationOk" =>
       /\ last'.settled = "fulfilled"
       /\ Len(conversations') = Len(conversations) + 1
       /\ conversations'[1] = last'.id
       /\ \A i \in 1..Len(conversations) :
            conversations'[i + 1] = conversations[i]
       /\ UNCHANGED <<currentConversation, messages>>]_vars

\* a conversation was created while the list held others
C12_Witness ==
  /\ last.op = "createConversationOk"
  /\ Len(conversations) >= 2
  /\ conversations[1] = last.id

\* C13: a failed createConversation or deleteConversation rejects, and leaves
\* the conversation list, the active conversation and the message list alone.
C13_MutationFailurePropagates ==
  [][last'.op \in {"createConversationThrow", "deleteConversationThrow"} =>
       /\ last'.settled = "rejected"
       /\ UNCHANGED <<conversations, currentConversation, messages>>]_vars

\* the delete of a listed, active conversation failed: it is still listed
\* and still active
C13_Witness ==
  /\ last.op = "deleteConversationThrow"
  /\ last.settled = "rejected"
  /\ currentConversation = last.id
  /\ \E i \in 1..Len(conversations) : conversations[i] = last.id

\* C14: when the fetch of loadConversations, loadMessages or loadModels
\* fails, conversations, messages and models keep their contents and the
\* only change to the requests is that the failed one is gone.
C14_LoadFailureRetains ==
  [][/\ last'.op \in {"loadConversationsFail", "loadMessagesFail",
                      "loadModelsFail"} =>
          UNCHANGED <<conversations, messages, models>>
     /\ last'.op = "loadConversationsFail" =>
          /\ convReqs' = convReqs - 1
          /\ UNCHANGED <<msgReqs, modelReqs, createReqs, deleteReqs, streams>>
     /\ last'.op = "loadMessagesFail" =>
          /\ msgReqs' = [msgReqs EXCEPT ![last'.id] = @ - 1]
          /\ UNCHANGED <<convReqs, modelReqs, createReqs, deleteReqs, streams>>
     /\ last'.op = "loadModelsFail" =>
          /\ modelReqs' = modelReqs - 1
          /\ UNCHANGED <<convReqs, msgReqs, createReqs, deleteReqs,
                         streams>>]_vars

\* a load of the messages failed while all three collections held data
C14_Witness ==
  /\ last.op = "loadMessagesFail"
  /\ conversations /= <<>>
  /\ messages /= <<>>
  /\ models /= <<>>

\* C15: isLoading is true in every state in which a fetch of loadMessages
\* is in flight, whatever else overlaps with it.
C15_LoadingWhileFetching == MsgInFlight > 0 => isLoading

\* C16: selectConversation(c) with a conversation c makes c the active
\* conversation and starts one fetch of the messages of c and no other
\* request; the step in which a fetch of the messages of c succeeds makes the
\* message list one the server returns for c, with nothing of the previous
\* list kept.
C16_SelectLoadsMessages ==
  [][/\ (last'.op = "selectConversation" /\ last'.id /= None) =>
          /\ currentConversation' = last'.id
          /\ msgReqs' = [msgReqs EXCEPT ![last'.id] = @ + 1]
          /\ UNCHANGED <<convReqs, modelReqs, createReqs, deleteReqs, streams>>
     /\ last'.op = "loadMessagesOk" =>
          /\ msgReqs' = [msgReqs EXCEPT ![last'.id] = @ - 1]
          /\ messages' \in MessageLists(last'.id)]_vars

\* the messages of the active conversation arrived and replaced a list that
\* was not empty
C16_Witness ==
  /\ last.op = "loadMessagesOk"
  /\ last.had
  /\ currentConversation = last.id
  /\ messages = <<Message("assistant", <<97>>, last.id)>>

\* C17: a network failure, a response without body, a non-success status and
\* a failed read each end the invocation with one call of onError and none of
\* onComplete; in the first three cases onChunk has not been called.
C17_FailureIsOneError ==
  [][\A s \in Slots :
       /\ (streams[s].pc = "fetch" /\ streams'[s].pc = "done") =>
            last'.op = "onError"
       /\ (streams[s].pc = "json" /\ streams'[s] /= streams[s]) =>
            streams'[s].pc = "done" /\ last'.op = "onError"
       /\ (streams[s].pc \in {"fetch", "json", "read"}
             /\ streams'[s].pc = "done" /\ last'.op = "onError") =>
            /\ streams'[s].nError = 1
            /\ streams'[s].nComplete = 0
            /\ streams[s].pc \in {"fetch", "json"} =>
                 streams[s].frags = <<>> /\ ~last'.had]_vars

\* a response without body ended an invocation with its one onError
C17_Witness ==
  /\ last.op = "onError"
  /\ last.err = "No response body"
  /\ \E s \in Slots :
       streams[s].pc = "done" /\ streams[s].nError = 1
         /\ streams[s].nComplete = 0

\* C18: after a non-success status onError carries the detail of the
\* response body, or the generic message when the body gives none or cannot
\* be parsed.
C18_NonSuccessMessage ==
  [][\A s \in Slots :
       (streams[s].pc = "json" /\ streams'[s].pc = "done") =>
         /\ last'.op = "onError"
         /\ last'.err \in {"detail", "Failed to send message"}]_vars

\* C19: while the body is read every chunk adds one call of onChunk after
\* those made before, with the text decoded from that chunk; when the body
\* closes after N chunks onChunk has been called N times and onComplete is
\* called once, onError not at all; an invocation that has ended makes no
\* further call.
C19_FragmentsThenComplete ==
  [][\A s \in Slots :
       /\ (streams[s].pc = "read" /\ streams'[s].pc = "read"
             /\ streams'[s] /= streams[s]) =>
            /\ streams'[s].nChunk = streams[s].nChunk + 1
            /\ Len(streams'[s].frags) = streams'[s].nChunk
            /\ SubSeq(streams'[s].frags, 1, streams[s].nChunk) = streams[s].frags
            /\ \E value \in Chunks :
                 streams'[s].frags[streams'[s].nChunk]
                   = decode(streams[s].need, streams[s].cp, value).out
            /\ streams'[s].nComplete = 0
       /\ (streams[s].pc = "read" /\ streams'[s].pc = "done"
             /\ last'.op = "onComplete") =>
            /\ Len(streams[s].frags) = streams[s].nChunk
            /\ last'.had = (streams[s].nChunk > 0)
            /\ streams'[s].nComplete = 1
            /\ streams'[s].nError = 0
       /\ (streams[s].pc = "done" /\ streams'[s].pc = "done") =>
            streams'[s] = streams[s]]_vars

\* a body that delivered chunks closed: onComplete was called once
C19_Witness ==
  /\ last.op = "onComplete"
  /\ last.had
  /\ last.settled = "fulfilled"
  /\ \E s \in Slots :
       streams[s].pc = "done" /\ streams[s].nComplete = 1
         /\ streams[s].nError = 0

\* C20: the promises of loadConversations, loadMessages, loadModels and
\* sendMessage fulfil however their requests end; a promise that rejects is
\* that of a createConversation or deleteConversation whose request failed,
\* and these do reject.
C20_OnlyMutationsReject ==
  [][/\ last'.op \in {"loadConversationsOk", "loadConversationsFail",
                      "loadMessagesOk", "loadMessagesFail",
                      "loadModelsOk", "loadModelsFail",
                      "onComplete", "onError"} =>
          last'.settled = "fulfilled"
     /\ last'.settled = "rejected" <=>
          last'.op \in {"createConversationThrow",
                        "deleteConversationThrow"}]_vars

\* a send whose read threw a value that is no Error settled without rejecting
C20_Witness ==
  /\ last.op = "onError"
  /\ last.err = "Unknown error"
  /\ last.settled = "fulfilled"
  /\ ~isStreaming
  /\ ~isLoading

\* UTF-8 as defined for whole byte sequences of one and two byte characters:
\* the characters encoded by the complete sequences of bytes, an incomplete
\* sequence at the end giving nothing; <<0>> marks a sequence that is no
\* encoding
RECURSIVE RefDecode(_)
RefDecode(bytes) ==
  IF bytes = <<>> THEN <<>>
  ELSE LET b == Head(bytes) IN
    IF b <= 127 THEN <<b>> \o RefDecode(Tail(bytes))
    ELSE IF b >= 194 /\ b <= 223
         THEN IF Len(bytes) = 1 THEN <<>>
              ELSE IF bytes[2] >= 128 /\ bytes[2] <= 191
                   THEN <<(b - 192) * 64 + (bytes[2] - 128)>>
                          \o RefDecode(Tail(Tail(bytes)))
                   ELSE <<0>>
         ELSE <<0>>

IsEncoding(bytes) ==
  LET text == RefDecode(bytes) IN \A i \in 1..Len(text) : text[i] /= 0

\* C21: while a body is read whose bytes so far are a valid encoding, the
\* fragments passed on up to any chunk are together the characters that
\* are complete in the bytes up to that chunk: a character split over two
\* chunks appears once, in the fragment of the chunk that completes it.
C21_DecodingAcrossChunks ==
  \A s \in Slots :
    (streams[s].pc = "read" /\ IsEncoding(Flatten(streams[s].chunks))) =>
      /\ Len(streams[s].frags) = Len(streams[s].chunks)
      /\ \A k \in 1..Len(streams[s].chunks) :
           Flatten(SubSeq(streams[s].frags, 1, k))
             = RefDecode(Flatten(SubSeq(streams[s].chunks, 1, k)))

\* the two bytes of U+00E9 arrived in two chunks: nothing was passed on for
\* the first, the character for the second
C21_Witness ==
  \E s \in Slots :
    /\ streams[s].pc = "read"
    /\ streams[s].chunks = <<(<<195>>), (<<169>>)>>
    /\ streams[s].frags = <<(<<>>), (<<233>>)>>
    /\ streamingMessage = <<233>>

\* C22: a streaming request is opened only by the step of an accepted send,
\* one per send; an invocation that is running has issued one request, and
\* the step that reports its failure ends it without another request.
C22_SingleAttempt ==
  [][/\ OpensRequest =>
          /\ last'.op \in SendOps
          /\ Cardinality({s \in Slots : streams[s].pc /= "fetch"
                                          /\ streams'[s].pc = "fetch"}) = 1
     /\ \A s \in Slots :
          /\ streams'[s].pc \in {"fetch", "json", "read"} =>
               streams'[s].nFetch = 1
          /\ (streams[s].pc \in {"fetch", "json", "read"}
                /\ last'.op = "onError") =>
               streams'[s].pc = "done"]_vars

\* the one request of a send failed on the network and nothing is outstanding
C22_Witness ==
  /\ last.op = "onError"
  /\ last.err = "Failed to fetch"
  /\ Outstanding = {}
  /\ \E s \in Slots : streams[s].pc = "done" /\ streams[s].nError = 1
  /\ messages /= <<>>

\* C23: the request opened by sendMessage(content, params) carries the id of
\* the conversation active at the call, or none, the content as given, the
\* model of params, and stream true whatever stream key params brought.
C23_RequestContents ==
  [][\A s \in Slots :
       (streams[s].pc /= "fetch" /\ streams'[s].pc = "fetch") =>
         /\ last'.op \in SendOps
         /\ streams'[s].req.conversation_id = currentConversation
         /\ streams'[s].req.message = last'.text
         /\ streams'[s].req.model = last'.params.model
         /\ streams'[s].req.stream = "true"]_vars

\* a send in an active conversation whose params brought stream: false
C23_Witness ==
  /\ last.op = "sendMessage"
  /\ last.text /= <<>>
  /\ last.params.stream = "false"
  /\ last.params.model /= "absent"
  /\ currentConversation /= None
  /\ \E s \in Slots :
       /\ streams[s].pc = "fetch"
       /\ streams[s].req.conversation_id = currentConversation
       /\ streams[s].req.stream = "true"

\* C24: in every state with no request in flight and a conversation active,
\* the message list holds no message fetched for another conversation
\* (the messages the server returns are those of role assistant).
C24_MessagesOfActiveConversation ==
  (InFlight = 0 /\ Outstanding = {} /\ currentConversation /= None) =>
    \A i \in 1..Len(messages) :
      messages[i].role = "assistant" => messages[i].conv = currentConversation

\* C25: the step in which a deleteConversation(id) resolves leaves an active
\* conversation other than id, whatever was selected since the call.
C25_DeletedIsNeverActive ==
  [][last'.op = "deleteConversationOk" =>
       currentConversation' /= last'.id]_vars

\* C26: the step in which a deleteConversation(id) resolves while another
\* conversation, or none, is active leaves the active conversation and the
\* message list as they are.
C26_DeleteOfInactiveKeepsActive ==
  [][(last'.op = "deleteConversationOk" /\ currentConversation /= last'.id) =>
       UNCHANGED <<currentConversation, messages>>]_vars

\* C27: while no conversation is active and the message list is empty, only
\* an accepted send or a selection makes the list non-empty.
C27_NewChatStaysEmpty ==
  [][(currentConversation = None /\ messages = <<>>
        /\ last'.op \notin SendOps \cup {"selectConversation"}) =>
       messages' = <<>>]_vars

\* C28: the step in which a send issued without conversation completes
\* leaves the active conversation and the message list as they are and
\* fetches no messages; a send accepted while no conversation is active
\* carries no conversation id, also after such a completion.
C28_NewChatStaysNew ==
  [][/\ (last'.op = "onComplete" /\ last'.id = None) =>
          /\ UNCHANGED <<currentConversation, messages, msgReqs>>
          /\ convReqs' = convReqs + 1
     /\ (last'.op \in SendOps /\ currentConversation = None) =>
          /\ currentConversation' = None
          /\ \E s \in Slots :
               /\ streams[s].pc /= "fetch" /\ streams'[s].pc = "fetch"
               /\ streams'[s].req.conversation_id = None]_vars

\* the first turn of a new chat completed: no conversation is active, the
\* list holds the user message alone and only the conversation list is
\* being fetched
C28_Witness ==
  /\ last.op = "onComplete"
  /\ last.id = None
  /\ last.had
  /\ currentConversation = None
  /\ Len(messages) = 1
  /\ messages[1].role = "user"
  /\ MsgInFlight = 0
  /\ convReqs > 0

\* C29: in every state in which isStreaming is false the streamed buffer is
\* empty.
C29_BufferOnlyWhileStreaming == ~isStreaming => streamingMessage = <<>>

\* a stream that delivered text ended after another conversation had been
\* selected
C29_Witness ==
  /\ last.op \in {"onComplete", "onError"}
  /\ last.had
  /\ currentConversation /= None
  /\ \A i \in 1..Len(messages) : messages[i].conv /= currentConversation
  /\ messages /= <<>>
  /\ ~isStreaming
  /\ streamingMessage = <<>>

\* C30: over a transport that answers, a state in which isStreaming is true
\* is followed by one in which isStreaming and isLoading are false; as long
\* as a streaming request is outstanding isStreaming is true.
C30_SendTerminates ==
  /\ isStreaming ~> (~isStreaming /\ ~isLoading)
  /\ [](Outstanding /= {} => isStreaming)

\* a second send was accepted after the first had ended
C30_Witness ==
  /\ last.op = "handleSubmit"
  /\ isStreaming
  /\ Len(messages) = 2
  /\ Cardinality(Outstanding) = 1
====
